---- MODULE Spec2Model ----
(***************************************************************************)
(* Model of src/app.py: the credential store (users.db, table users), the  *)
(* Streamlit script pass that every user interaction re-runs, the session  *)
(* gate, and the Prediction Tool's use of the cached model.                *)
(*                                                                         *)
(* Each browser session re-runs the script from the top on every           *)
(* interaction.  Sessions share users.db and the process-wide model cache. *)
(* A pass is cut at the statements that touch users.db, so that sessions   *)
(* interleave at statement granularity: the script top (CREATE TABLE IF    *)
(* NOT EXISTS), then the view's SELECT, or its INSERT and its commit.      *)
(* Spec is the program over a working users.db; FaultSpec adds statements  *)
(* that raise sqlite3.OperationalError.                                    *)
(***************************************************************************)
EXTENDS Naturals, FiniteSets, Sequences, TLC

\* ------------------------------------------------------------------ bounds
\* The passwords the forms submit: the first NumPasswords of PasswordList.
NumPasswords == 2
PasswordList == <<"", "secret123", "wrong">>
Passwords == {PasswordList[i] : i \in 1..NumPasswords}

Usernames == {"alice", "bob"}
Sessions == {"s1", "s2"}
NoSession == "none"
Menu == {"Dashboard", "Prediction Tool"}

\* ------------------------------------------------------ pure definitions

\* hashlib.sha256(str.encode(password)).hexdigest()
make_hashes(password) ==
  CASE password = "" ->
         "e3b0c44298fc1c149afbf4c8996fb92427ae41e4649b934ca495991b7852b855"
    [] password = "secret123" ->
         "fcf730b6d95236ecd3c9fc2d92d7b6b2bb061514961aec041d6c7a7192f592e4"
    [] password = "wrong" ->
         "8810ad581e59f2bc3928b261707a71308f7e139eb04820366dc4d5c18d980225"

Row(u, h) == [username |-> u, password |-> h]

\* users.db before the first pass: the file holds no table.
NoTable == [exists |-> FALSE, rows |-> {}]

\* Mutant: the table is dropped and created again on every pass.
create_user_table_drop(d) == [exists |-> TRUE, rows |-> {}]

\* Mutant: nothing is created.
create_user_table_noop(d) == d

\* CREATE TABLE IF NOT EXISTS users(username TEXT PRIMARY KEY, password TEXT)
create_user_table(d) ==
  IF d.exists THEN d ELSE [exists |-> TRUE, rows |-> {}]

\* Mutant: username is not declared PRIMARY KEY.
PrimaryKeyNever(rows, u) == FALSE

\* The PRIMARY KEY constraint on username: the INSERT raises IntegrityError.
PrimaryKeyConflict(rows, u) == \E r \in rows : r.username = u

\* Mutant: the connection is closed without conn.commit().
InsertRowLost(rows, u, h) == rows

\* INSERT INTO users(username, password) VALUES (?,?), once committed.
InsertRow(rows, u, h) == rows \cup {Row(u, h)}

\* Mutant: the query matches the username alone.
SelectUserAnyPassword(rows, u, h) == {r \in rows : r.username = u}

\* SELECT * FROM users WHERE username =? AND password = ?   (fetchall)
SelectUser(rows, u, h) == {r \in rows : r.username = u /\ r.password = h}

\* login_user(username, password): the rows fetched; empty is falsy.
login_user(d, u, p) == SelectUser(d.rows, u, make_hashes(p))

\* load_model under st.cache_resource: loaded once per process, and the
\* result (None included) is what every later pass gets.
load_model(cached, file) ==
  IF cached # "unloaded" THEN cached
  ELSE IF file = "present" THEN "obj" ELSE "None"

\* Mutant: the guard is gone.
ModelMissingNever(m) == FALSE

\* if model is None:   (the Prediction Tool's guard)
ModelMissing(m) == m = "None"

\* if 'logged_in' not in st.session_state / if 'username' not in ...
InitSessionState(ss) ==
  [k \in {"logged_in", "username"} |->
     IF k \in DOMAIN ss THEN ss[k]
     ELSE IF k = "logged_in" THEN FALSE ELSE ""]

\* ------------------------------------------------------------------ state
VARIABLES
  db,            \* users.db: [exists, rows], the committed content
  writer,        \* the session holding the write lock (INSERT not yet committed)
  modelFile,     \* student_dropout_model.pkl: "present" or "missing"
  model,         \* the cached load_model() result: "unloaded", "None", "obj"
  pc,            \* where each session's script pass stands
  ev,            \* the widget input that started the pass: [kind, user, pass]
  menu,          \* the sidebar radio's value
  session_state, \* st.session_state: a function on the keys set so far
  choice,        \* the view the gate chose in this pass
  view,          \* the view the last finished pass rendered
  notice,        \* the message the pass showed
  ret,           \* add_user's return value
  data,          \* login_user's return value
  sqlerr,        \* the exception the INSERT raised inside add_user's try
  exc,           \* the exception that left the script unhandled
  predicted,     \* whether model.predict was called in this pass
  registered,    \* history: the (username, password) add_user returned True for
  partner        \* history of this session's add_user call, entered with no
                 \* record for its username: NoSession while no other call
                 \* has run beside it, the session whose one call has, "void"
                 \* otherwise (a record at entry, or more calls beside it)

dbvars == <<db, writer>>
envvars == <<modelFile, model>>
histvars == <<registered, partner>>
vars == <<db, writer, modelFile, model, pc, ev, menu, session_state, choice,
          view, notice, ret, data, sqlerr, exc, predicted,
          registered, partner>>

NoEvent == [kind |-> "load", user |-> "", pass |-> ""]

\* The records stored under username u.
Stored(u) == {r \in db.rows : r.username = u}

Init ==
  /\ db = NoTable
  /\ writer = NoSession
  /\ modelFile \in {"present", "missing"}
  /\ model = "unloaded"
  /\ pc = [s \in Sessions |-> "idle"]
  /\ ev = [s \in Sessions |-> NoEvent]
  /\ menu = [s \in Sessions |-> "Dashboard"]
  /\ session_state = [s \in Sessions |-> <<>>]
  /\ choice = [s \in Sessions |-> "none"]
  /\ view = [s \in Sessions |-> "none"]
  /\ notice = [s \in Sessions |-> ""]
  /\ ret = [s \in Sessions |-> FALSE]
  /\ data = [s \in Sessions |-> {}]
  /\ sqlerr = [s \in Sessions |-> "none"]
  /\ exc = [s \in Sessions |-> "none"]
  /\ predicted = [s \in Sessions |-> "none"]
  /\ registered = {}
  /\ partner = [s \in Sessions |-> NoSession]

\* ------------------------------------------------------- the script pass

\* st.rerun(): the pass ends here and the script runs again from the top,
\* with no widget event.
Rerun(s) ==
  /\ pc' = [pc EXCEPT ![s] = "script"]
  /\ ev' = [ev EXCEPT ![s] = NoEvent]

\* Mutant: the sidebar and the radio are drawn whatever the session flag says.
GateOpen(ss, m) == m

\* The sidebar: the view this pass shows, from the session flag and the radio.
Gate(ss, m) == IF ss["logged_in"] THEN m ELSE "Login"

\* The top of the script down to the view dispatch, in a pass started by
\* widget event e with the radio at m: model = load_model(),
\* create_user_table(), the session-state defaults, the navigation sidebar.
ScriptTop(s, e, m) ==
  /\ model' = load_model(model, modelFile)
  /\ db' = create_user_table(db)
  /\ LET ss == InitSessionState(session_state[s]) IN
       /\ choice' = [choice EXCEPT ![s] = Gate(ss, m)]
       /\ IF ss["logged_in"] /\ e.kind = "signout"
            THEN /\ session_state' =
                      [session_state EXCEPT ![s] = [ss EXCEPT !["logged_in"] = FALSE]]
                 /\ Rerun(s)
                 /\ menu' = [menu EXCEPT ![s] = m]
            ELSE /\ session_state' = [session_state EXCEPT ![s] = ss]
                 /\ pc' = [pc EXCEPT ![s] = "view"]
                 /\ ev' = [ev EXCEPT ![s] = e]
                 \* a radio that is not rendered loses its widget state
                 /\ menu' = [menu EXCEPT ![s] =
                               IF ss["logged_in"] THEN m ELSE "Dashboard"]
  /\ UNCHANGED <<writer, modelFile, view, registered>>

\* A widget event starts a new pass of the script: what the previous pass
\* showed and returned is gone, and the script runs from the top.
BeginPass(s, e, m) ==
  /\ pc[s] = "idle"
  /\ notice' = [notice EXCEPT ![s] = ""]
  /\ ret' = [ret EXCEPT ![s] = FALSE]
  /\ data' = [data EXCEPT ![s] = {}]
  /\ sqlerr' = [sqlerr EXCEPT ![s] = "none"]
  /\ exc' = [exc EXCEPT ![s] = "none"]
  /\ predicted' = [predicted EXCEPT ![s] = "none"]
  /\ partner' = [partner EXCEPT ![s] = NoSession]
  /\ ScriptTop(s, e, m)

\* The pass that st.rerun() started.
RerunPass(s) ==
  /\ pc[s] = "script"
  /\ ScriptTop(s, ev[s], menu[s])
  /\ UNCHANGED <<notice, ret, data, sqlerr, exc, predicted, partner>>

\* ------------------------------------------------- the user's interactions

\* The browser opens the page.
OpenPage(s) ==
  /\ view[s] = "none"
  /\ BeginPass(s, NoEvent, menu[s])

\* form "login_form": Launch Dashboard
SubmitLogin(s) ==
  /\ view[s] = "Login"
  /\ \E u \in Usernames, p \in Passwords :
       BeginPass(s, [kind |-> "login", user |-> u, pass |-> p], menu[s])

\* form "signup_form": Create Account
SubmitSignup(s) ==
  /\ view[s] = "Login"
  /\ \E u \in Usernames, p \in Passwords :
       BeginPass(s, [kind |-> "signup", user |-> u, pass |-> p], menu[s])

\* st.radio("MENU", menu)
SelectMenu(s) ==
  /\ view[s] \in Menu
  /\ \E m \in Menu \ {menu[s]} :
       BeginPass(s, [kind |-> "menu", user |-> "", pass |-> ""], m)

\* st.button("Sign Out")
ClickSignOut(s) ==
  /\ view[s] \in Menu
  /\ BeginPass(s, [kind |-> "signout", user |-> "", pass |-> ""], menu[s])

\* form "predict_form": Run Analysis (the form exists only with a model)
SubmitPredict(s) ==
  /\ view[s] = "Prediction Tool"
  /\ ~ModelMissing(model)
  /\ BeginPass(s, [kind |-> "predict", user |-> "", pass |-> ""], menu[s])

\* ----------------------------------------------------------- the views

\* VIEW 1 with neither form submitted.
RenderLogin(s) ==
  /\ pc[s] = "view"
  /\ choice[s] = "Login"
  /\ ev[s].kind \notin {"login", "signup"}
  /\ pc' = [pc EXCEPT ![s] = "idle"]
  /\ view' = [view EXCEPT ![s] = "Login"]
  /\ UNCHANGED <<dbvars, envvars, ev, menu, session_state, choice, notice, ret,
                 data, sqlerr, exc, predicted, histvars>>

\* if submit_login: login_user(username, password) is one SELECT.
LoginSubmit(s) ==
  /\ pc[s] = "view"
  /\ choice[s] = "Login"
  /\ ev[s].kind = "login"
  /\ LET rows == login_user(db, ev[s].user, ev[s].pass) IN
       /\ data' = [data EXCEPT ![s] = rows]
       /\ IF rows # {}
            THEN /\ session_state' = [session_state EXCEPT ![s] =
                      [logged_in |-> TRUE, username |-> ev[s].user]]
                 /\ notice' = [notice EXCEPT ![s] = "Access Granted"]
                 /\ Rerun(s)
                 /\ UNCHANGED view
            ELSE /\ notice' = [notice EXCEPT ![s] =
                      "Access Denied: Invalid credentials"]
                 /\ pc' = [pc EXCEPT ![s] = "idle"]
                 /\ view' = [view EXCEPT ![s] = "Login"]
                 /\ UNCHANGED <<session_state, ev>>
  /\ UNCHANGED <<dbvars, envvars, menu, choice, ret, sqlerr, exc, predicted,
                 histvars>>

\* The sessions inside add_user: connected, INSERT or commit still to come.
InAddUser == {t \in Sessions : pc[t] \in {"insert", "commit"}}

\* if submit_signup: add_user(new_user, new_pass) opens its connection.
AddUserConnect(s) ==
  /\ pc[s] = "view"
  /\ choice[s] = "Login"
  /\ ev[s].kind = "signup"
  /\ pc' = [pc EXCEPT ![s] = "insert"]
  /\ partner' = [t \in Sessions |->
                   IF t = s
                     THEN IF Stored(ev[s].user) # {} THEN "void"
                          ELSE IF InAddUser = {} THEN NoSession
                          ELSE IF Cardinality(InAddUser) = 1
                            THEN CHOOSE x \in InAddUser : TRUE
                          ELSE "void"
                   ELSE IF t \notin InAddUser THEN partner[t]
                   ELSE IF partner[t] = NoSession THEN s
                   ELSE "void"]
  /\ UNCHANGED <<dbvars, envvars, ev, menu, session_state, choice, view, notice,
                 ret, data, sqlerr, exc, predicted, registered>>

\* c.execute('INSERT ...') succeeds: the row is written under the write lock
\* and waits for the commit.  The statement waits while another connection
\* holds the lock.
AddUserInsert(s) ==
  /\ pc[s] = "insert"
  /\ writer = NoSession
  /\ ~PrimaryKeyConflict(db.rows, ev[s].user)
  /\ writer' = s
  /\ pc' = [pc EXCEPT ![s] = "commit"]
  /\ UNCHANGED <<db, envvars, ev, menu, session_state, choice, view, notice,
                 ret, data, sqlerr, exc, predicted, histvars>>

\* c.execute('INSERT ...') raises IntegrityError; except: return False;
\* finally: conn.close(); the caller warns "Username taken."
AddUserReject(s) ==
  /\ pc[s] = "insert"
  /\ writer = NoSession
  /\ PrimaryKeyConflict(db.rows, ev[s].user)
  /\ sqlerr' = [sqlerr EXCEPT ![s] = "IntegrityError"]
  /\ ret' = [ret EXCEPT ![s] = FALSE]
  /\ notice' = [notice EXCEPT ![s] = "Username taken."]
  /\ pc' = [pc EXCEPT ![s] = "idle"]
  /\ view' = [view EXCEPT ![s] = "Login"]
  /\ UNCHANGED <<dbvars, envvars, ev, menu, session_state, choice, data, exc,
                 predicted, histvars>>

\* conn.commit(); return True; finally: conn.close(); the caller reports
\* "Account ready! Please sign in."
AddUserCommit(s) ==
  /\ pc[s] = "commit"
  /\ writer = s
  /\ db' = [db EXCEPT !.rows =
              InsertRow(db.rows, ev[s].user, make_hashes(ev[s].pass))]
  /\ writer' = NoSession
  /\ ret' = [ret EXCEPT ![s] = TRUE]
  /\ notice' = [notice EXCEPT ![s] = "Account ready! Please sign in."]
  /\ pc' = [pc EXCEPT ![s] = "idle"]
  /\ view' = [view EXCEPT ![s] = "Login"]
  /\ registered' = registered \cup {<<ev[s].user, ev[s].pass>>}
  /\ UNCHANGED <<envvars, ev, menu, session_state, choice, data, sqlerr, exc,
                 predicted, partner>>

\* VIEW 2: the dashboard renders from the cached dataset.
RenderDashboard(s) ==
  /\ pc[s] = "view"
  /\ choice[s] = "Dashboard"
  /\ pc' = [pc EXCEPT ![s] = "idle"]
  /\ view' = [view EXCEPT ![s] = "Dashboard"]
  /\ UNCHANGED <<dbvars, envvars, ev, menu, session_state, choice, notice, ret,
                 data, sqlerr, exc, predicted, histvars>>

\* VIEW 3, if model is None: st.error("Model file not found ...")
PredictionNoModel(s) ==
  /\ pc[s] = "view"
  /\ choice[s] = "Prediction Tool"
  /\ ModelMissing(model)
  /\ notice' = [notice EXCEPT ![s] = "Model file not found"]
  /\ pc' = [pc EXCEPT ![s] = "idle"]
  /\ view' = [view EXCEPT ![s] = "Prediction Tool"]
  /\ UNCHANGED <<dbvars, envvars, ev, menu, session_state, choice, ret, data,
                 sqlerr, exc, predicted, histvars>>

\* VIEW 3 with a model and the form not submitted: the empty state.
PredictionForm(s) ==
  /\ pc[s] = "view"
  /\ choice[s] = "Prediction Tool"
  /\ ~ModelMissing(model)
  /\ ev[s].kind # "predict"
  /\ pc' = [pc EXCEPT ![s] = "idle"]
  /\ view' = [view EXCEPT ![s] = "Prediction Tool"]
  /\ UNCHANGED <<dbvars, envvars, ev, menu, session_state, choice, notice, ret,
                 data, sqlerr, exc, predicted, histvars>>

\* if predict_btn: model.predict / model.predict_proba return, and the
\* gauge and the alert are drawn.
PredictOk(s) ==
  /\ pc[s] = "view"
  /\ choice[s] = "Prediction Tool"
  /\ ~ModelMissing(model)
  /\ ev[s].kind = "predict"
  /\ predicted' = [predicted EXCEPT ![s] = "returned"]
  /\ \E is_risk \in BOOLEAN :
       notice' = [notice EXCEPT ![s] =
                    IF is_risk THEN "High Risk Alert" ELSE "On Track"]
  /\ pc' = [pc EXCEPT ![s] = "idle"]
  /\ view' = [view EXCEPT ![s] = "Prediction Tool"]
  /\ UNCHANGED <<dbvars, envvars, ev, menu, session_state, choice, ret, data,
                 sqlerr, exc, histvars>>

\* if predict_btn: model.predict or model.predict_proba raises.  No try
\* encloses the calls, so the exception leaves the script.
PredictRaise(s) ==
  /\ pc[s] = "view"
  /\ choice[s] = "Prediction Tool"
  /\ ~ModelMissing(model)
  /\ ev[s].kind = "predict"
  /\ predicted' = [predicted EXCEPT ![s] = "raised"]
  /\ exc' = [exc EXCEPT ![s] = "Exception"]
  /\ pc' = [pc EXCEPT ![s] = "idle"]
  /\ view' = [view EXCEPT ![s] = "Prediction Tool"]
  /\ UNCHANGED <<dbvars, envvars, ev, menu, session_state, choice, notice, ret,
                 data, sqlerr, histvars>>

\* ------------------------------------------------ persistence failures

\* c.execute('INSERT ...') raises sqlite3.OperationalError (users.db locked
\* past the busy timeout, unreadable, read-only); except: return False;
\* the caller warns "Username taken."
AddUserFault(s) ==
  /\ pc[s] = "insert"
  /\ sqlerr' = [sqlerr EXCEPT ![s] = "OperationalError"]
  /\ ret' = [ret EXCEPT ![s] = FALSE]
  /\ notice' = [notice EXCEPT ![s] = "Username taken."]
  /\ pc' = [pc EXCEPT ![s] = "idle"]
  /\ view' = [view EXCEPT ![s] = "Login"]
  /\ UNCHANGED <<dbvars, envvars, ev, menu, session_state, choice, data, exc,
                 predicted, histvars>>

\* login_user's SELECT raises sqlite3.OperationalError: nothing catches it.
LoginFault(s) ==
  /\ pc[s] = "view"
  /\ choice[s] = "Login"
  /\ ev[s].kind = "login"
  /\ exc' = [exc EXCEPT ![s] = "OperationalError"]
  /\ pc' = [pc EXCEPT ![s] = "idle"]
  /\ view' = [view EXCEPT ![s] = "Login"]
  /\ UNCHANGED <<dbvars, envvars, ev, menu, session_state, choice, notice, ret,
                 data, sqlerr, predicted, histvars>>

\* ------------------------------------------------------- specifications

Next ==
  \E s \in Sessions :
    \/ OpenPage(s)
    \/ SubmitLogin(s)
    \/ SubmitSignup(s)
    \/ SelectMenu(s)
    \/ ClickSignOut(s)
    \/ SubmitPredict(s)
    \/ RerunPass(s)
    \/ RenderLogin(s)
    \/ LoginSubmit(s)
    \/ AddUserConnect(s)
    \/ AddUserInsert(s)
    \/ AddUserReject(s)
    \/ AddUserCommit(s)
    \/ RenderDashboard(s)
    \/ PredictionNoModel(s)
    \/ PredictionForm(s)
    \/ PredictOk(s)
    \/ PredictRaise(s)

\* The program over a working users.db.
Spec == Init /\ [][Next]_vars

NextFault ==
  \/ Next
  \/ \E s \in Sessions : AddUserFault(s)
  \/ \E s \in Sessions : LoginFault(s)

\* The program over a users.db whose statements may fail.
FaultSpec == Init /\ [][NextFault]_vars

\* ------------------------------------------------------------- claims

\* C1: when the INSERT of register(u, p) executes on a store with no record
\* for u, the call goes on to commit and returns True with (u, hash(p))
\* stored; every authenticate(u, p) issued after a register(u, p) returned
\* True fetches a non-empty result, whatever ran in between.
C1_RegisterThenAuthenticate ==
  [][\A s \in Sessions :
       /\ (pc[s] = "insert" /\ pc'[s] # "insert" /\ Stored(ev[s].user) = {})
            => AddUserInsert(s)
       /\ AddUserCommit(s)
            => /\ ret'[s] = TRUE
               /\ notice'[s] = "Account ready! Please sign in."
               /\ login_user(db', ev[s].user, ev[s].pass) # {}
       /\ (LoginSubmit(s) /\ <<ev[s].user, ev[s].pass>> \in registered)
            => /\ data'[s] # {}
               /\ session_state'[s]["logged_in"] = TRUE]_vars

\* C1 witness: a login with the empty password succeeded for a username that
\* was registered with the empty password.
C1_Witness ==
  \E s \in Sessions :
    /\ notice[s] = "Access Granted"
    /\ \E r \in data[s] :
         /\ r.password = make_hashes("")
         /\ <<r.username, "">> \in registered

\* C2: register(u, p2) on a username that has a record returns False, is
\* answered "Username taken.", and leaves the store as it was: afterwards
\* authenticate(u, p) succeeds exactly for the password u was registered with.
C2_DuplicateRejected ==
  [][\A s \in Sessions :
       (pc[s] = "insert" /\ pc'[s] # "insert" /\ Stored(ev[s].user) # {})
         => /\ pc'[s] = "idle"
            /\ ret'[s] = FALSE
            /\ notice'[s] = "Username taken."
            /\ db' = db
            /\ \A p \in Passwords :
                 login_user(db', ev[s].user, p) # {}
                   <=> <<ev[s].user, p>> \in registered]_vars

\* C2 witness: a register with another password than the stored one was
\* rejected and the stored hash is still the original's.
C2_Witness ==
  \E s \in Sessions :
    /\ pc[s] = "idle"
    /\ ev[s].kind = "signup"
    /\ sqlerr[s] = "IntegrityError"
    /\ ret[s] = FALSE
    /\ \E r \in db.rows :
         /\ r.username = ev[s].user
         /\ r.password # make_hashes(ev[s].pass)

\* C3: authenticate(u, p) fetches a non-empty result exactly when the store
\* holds a record with username u and password hash(p); it fetches the same
\* empty result, with the same message, for a username never registered and
\* for a username registered with another password.
C3_AuthenticateIffRecord ==
  [][\A s \in Sessions :
       LoginSubmit(s)
         => /\ data'[s] # {}
                 <=> \E r \in db.rows :
                       /\ r.username = ev[s].user
                       /\ r.password = make_hashes(ev[s].pass)
            /\ data'[s] # {} <=> <<ev[s].user, ev[s].pass>> \in registered
            /\ data'[s] = {}
                 => /\ notice'[s] = "Access Denied: Invalid credentials"
                    /\ session_state'[s] = session_state[s]]_vars

\* C3 witness: one session was denied for a username with no record, another
\* for a registered username with the wrong password.
C3_Witness ==
  \E s, t \in Sessions :
    /\ pc[s] = "idle" /\ ev[s].kind = "login" /\ data[s] = {}
    /\ notice[s] = "Access Denied: Invalid credentials"
    /\ Stored(ev[s].user) = {}
    /\ pc[t] = "idle" /\ ev[t].kind = "login" /\ data[t] = {}
    /\ notice[t] = notice[s]
    /\ \E r \in Stored(ev[t].user) : r.password # make_hashes(ev[t].pass)

\* C4: the users table holds at most one record per username.
C4_OneRecordPerUsername ==
  \A r1, r2 \in db.rows : r1.username = r2.username => r1 = r2

\* C4 witness: every username has a record and a second registration of one
\* of them, with another password, was attempted.
C4_Witness ==
  /\ \A u \in Usernames : Stored(u) # {}
  /\ \E s \in Sessions :
       /\ pc[s] = "idle"
       /\ ev[s].kind = "signup"
       /\ ret[s] = FALSE
       /\ Row(ev[s].user, make_hashes(ev[s].pass)) \notin db.rows

\* A register call that has returned to the signup handler.
Returned(s) == pc[s] = "idle" /\ ev[s].kind = "signup"

\* The register calls of s and t ran concurrently, with no third call, and
\* neither username had a record when its call was entered.
ConcurrentPair(s, t) ==
  /\ s # t
  /\ Returned(s) /\ Returned(t)
  /\ partner[s] = t /\ partner[t] = s

\* C5: of two concurrent register calls with the same unregistered username
\* exactly one returns True, and the one record stored for the username has
\* the hash that call supplied; two concurrent register calls with different
\* unregistered usernames both return True and both records are stored.
C5_ConcurrentRegister ==
  \A s, t \in Sessions :
    ConcurrentPair(s, t)
      => IF ev[s].user = ev[t].user
           THEN /\ ret[s] # ret[t]
                /\ \E w \in {s, t} :
                     /\ ret[w] = TRUE
                     /\ Stored(ev[w].user) =
                          {Row(ev[w].user, make_hashes(ev[w].pass))}
           ELSE /\ ret[s] = TRUE /\ ret[t] = TRUE
                /\ Stored(ev[s].user) =
                     {Row(ev[s].user, make_hashes(ev[s].pass))}
                /\ Stored(ev[t].user) =
                     {Row(ev[t].user, make_hashes(ev[t].pass))}

\* C5 witness: two concurrent register calls with the same username and
\* different passwords have returned, one True and one False.
C5_Witness ==
  \E s, t \in Sessions :
    /\ ConcurrentPair(s, t)
    /\ ev[s].user = ev[t].user
    /\ ev[s].pass # ev[t].pass
    /\ ret[s] = TRUE /\ ret[t] = FALSE
    /\ sqlerr[t] = "IntegrityError"

\* C6: a register that fails for another reason than the username existing
\* surfaces as an error of its own: it is not answered "Username taken."
C6_StoreFailureDistinct ==
  \A s \in Sessions :
    sqlerr[s] = "OperationalError"
      => /\ exc[s] = "OperationalError"
         /\ notice[s] # "Username taken."

\* C7: the stored records change only by a register that returns True adding
\* one record for a username that had none; authenticate and a register that
\* returns False leave the store as it was; no record is removed or changed.
C7_StoreFrame ==
  [][/\ db.rows \subseteq db'.rows
     /\ db'.rows # db.rows
          => \E s \in Sessions :
               /\ AddUserCommit(s)
               /\ ret'[s] = TRUE
               /\ Stored(ev[s].user) = {}
               /\ db'.rows =
                    db.rows \cup {Row(ev[s].user, make_hashes(ev[s].pass))}
     /\ \A s \in Sessions :
          /\ AddUserCommit(s) => Cardinality(db'.rows) = Cardinality(db.rows) + 1
          /\ LoginSubmit(s) => db' = db
          /\ AddUserReject(s) => db' = db]_vars

\* C7 witness: one register has returned True and its record is the only
\* one, while another session's login was denied.
C7_Witness ==
  \E s, t \in Sessions :
    /\ Returned(s) /\ ret[s] = TRUE
    /\ db.rows = {Row(ev[s].user, make_hashes(ev[s].pass))}
    /\ pc[t] = "idle" /\ ev[t].kind = "login" /\ data[t] = {}

\* C8: every pass runs create_user_table; on a store with a table it leaves
\* every record as it was, on a store without one it yields an empty table,
\* and a second call on the result changes nothing.
C8_InitializeIdempotent ==
  [][\A s \in Sessions :
       (pc[s] \in {"idle", "script"} /\ pc'[s] # pc[s])
            => /\ db'.exists
               /\ db'.rows = (IF db.exists THEN db.rows ELSE {})
               /\ create_user_table(db') = db']_vars

\* C8 witness: a signed-in session's pass has run create_user_table on a
\* store that holds records.
C8_Witness ==
  \E s \in Sessions :
    /\ pc[s] = "view"
    /\ choice[s] = "Dashboard"
    /\ Stored(session_state[s]["username"]) # {}

\* C9: a prediction call that raises is caught and shown as a generic
\* message; no exception leaves the Prediction Tool view.
C9_PredictionFailureCaught ==
  \A s \in Sessions :
    predicted[s] = "raised"
      => /\ exc[s] = "none"
         /\ notice[s] = "Prediction failed"

\* C10: with the model file missing load_model yields None, no pass ends in
\* an exception, every finished pass has rendered the view the gate chose,
\* the Prediction Tool shows the notice, and model.predict is never called.
C10_MissingModelNonFatal ==
  modelFile = "missing"
    => /\ model \in {"unloaded", "None"}
       /\ \A s \in Sessions :
            /\ (pc[s] \notin {"idle", "script"} \/ view[s] # "none")
                 => model = "None"
            /\ predicted[s] = "none"
            /\ exc[s] = "none"
            /\ (pc[s] = "idle" /\ view[s] # "none") => view[s] = choice[s]
            /\ (pc[s] = "idle" /\ view[s] = "Prediction Tool")
                 => notice[s] = "Model file not found"

\* C10 witness: with the model file missing one session has the Prediction
\* Tool's notice on screen and another the Dashboard.
C10_Witness ==
  /\ modelFile = "missing"
  /\ \E s, t \in Sessions :
       /\ pc[s] = "idle" /\ view[s] = "Prediction Tool"
       /\ notice[s] = "Model file not found"
       /\ pc[t] = "idle" /\ view[t] = "Dashboard"

\* st.session_state['logged_in'], False while the key is not set.
LoggedIn(s) ==
  /\ "logged_in" \in DOMAIN session_state[s]
  /\ session_state[s]["logged_in"] = TRUE

\* C11: within a session a pass ends on Dashboard or Prediction Tool only
\* with logged_in true, and on Login otherwise; logged_in starts false,
\* turns true only in a login submission whose authenticate fetched a
\* non-empty result (the session username is then the submitted one, which
\* has a record), is left as it was by a failed login and by every step of a
\* signup, and turns false only by Sign Out, which always turns it false.
C11_SessionGate ==
  [][\A s \in Sessions :
       /\ (pc[s] # "idle" /\ pc'[s] = "idle")
            => /\ view'[s] \in Menu <=> LoggedIn(s)
               /\ ~LoggedIn(s) => view'[s] = "Login"
               /\ LoggedIn(s)' = LoggedIn(s)
       /\ (~LoggedIn(s) /\ LoggedIn(s)')
            => /\ LoginSubmit(s)
               /\ data'[s] # {}
               /\ session_state'[s]["username"] = ev[s].user
               /\ Stored(ev[s].user) # {}
       /\ (LoggedIn(s) /\ ~LoggedIn(s)') => ClickSignOut(s)
       \* the Sign Out pass is the one that goes from the button to st.rerun()
       /\ (pc[s] = "idle" /\ pc'[s] = "script")
            => ClickSignOut(s) /\ LoggedIn(s) /\ ~LoggedIn(s)'
       \* a failed login
       /\ (pc[s] = "view" /\ ev[s].kind = "login" /\ pc'[s] = "idle")
            => LoginSubmit(s) /\ data'[s] = {} /\ LoggedIn(s)' = LoggedIn(s)
       \* every step of a signup pass, from the form to add_user's return
       /\ (ev'[s].kind = "signup" /\ pc'[s] # pc[s])
            => ~LoggedIn(s) /\ ~LoggedIn(s)'
       /\ (pc[s] = "idle" /\ view[s] = "none") => ~LoggedIn(s)]_vars

\* C11 witness: one session signed in, signed out and is back on the Login
\* view with its session username kept; another is signed in on a protected
\* view under a username that has a record.
C11_Witness ==
  \E s, t \in Sessions :
    /\ pc[s] = "idle" /\ view[s] = "Login" /\ ev[s] = NoEvent
    /\ ~LoggedIn(s)
    /\ session_state[s]["username"] \in Usernames
    /\ pc[t] = "idle" /\ view[t] \in Menu
    /\ LoggedIn(t)
    /\ Stored(session_state[t]["username"]) # {}

====
